---- MODULE Spec2Model ----
(***************************************************************************)
(* Placement engine of the form builder: the drop-target item              *)
(* (DragDropReorderingItem.tsx) with its cached zone (hoverPosition), the  *)
(* hover and drop handlers, and the drag payload whose tracked index the   *)
(* hover handler mutates.                                                  *)
(*                                                                         *)
(* Pointer offsets and box sizes are integers; the code's comparisons      *)
(* y < height * 0.3, y > height * (1 - 0.3), y < height / 2 are modelled   *)
(* exactly as 10*y < 3*height, 10*y > 7*height, 2*y < height (for integer  *)
(* boxes up to 40 the IEEE double results are the same).                   *)
(***************************************************************************)
EXTENDS Integers, Sequences, FiniteSets, TLC

\* ------------------------------------------------------------------ bounds
\* Width and height of every item's bounding box in the main specification;
\* the box-local pointer of a hover tick ranges over 0..BoxW by 0..BoxH.
BoxW == 3
BoxH == 5
\* Largest box side drawn in the classifier specification.
MaxBox == 4

\* --------------------------------------------------------------- constants
Null == "null"

Nodes == {"a", "b", "c", "r", "v"}

Zones == {"none", "top", "bottom", "left", "right", "center"}

\* The trees the canvas can hold: top is the top-level sequence handed to every
\* item as allComponents, comps gives each node's type tag and children, and
\* items are the nodes mounted as a DragDropReorderingItem.
Leaf == [type |-> "text_input", children |-> << >>]

RowComps ==
    [n \in Nodes |->
        IF n = "r"
        THEN [type |-> "horizontal_layout", children |-> <<"b", "c">>]
        ELSE Leaf]

NestedComps ==
    [n \in Nodes |->
        IF n = "v"
        THEN [type |-> "vertical_layout", children |-> <<"r">>]
        ELSE RowComps[n]]

\* The container whose child sequence holds n in comps, or Null.
ParentIn(comps, n) ==
    IF \E p \in Nodes : \E i \in 1..Len(comps[p].children) : comps[p].children[i] = n
    THEN CHOOSE p \in Nodes : \E i \in 1..Len(comps[p].children) : comps[p].children[i] = n
    ELSE Null

MakeTree(top, comps, items) ==
    [top |-> top, comps |-> comps, items |-> items,
     parent |-> [n \in Nodes |-> ParentIn(comps, n)]]

TreeNames == {"flat", "row", "rowself", "rowin", "nested"}

\* The three-item list of the reordering specification.
ReorderTreeNames == {"flat3"}

TreeTable ==
    [name \in TreeNames \cup ReorderTreeNames |->
        CASE name = "flat3" ->
                MakeTree(<<"a", "b", "c">>, [n \in Nodes |-> Leaf], {"a", "b", "c"})
          [] name = "flat" ->
                MakeTree(<<"a", "b">>, [n \in Nodes |-> Leaf], {"a", "b"})
          [] name = "row" -> MakeTree(<<"r", "a">>, RowComps, {"a", "b"})
          [] name = "rowself" -> MakeTree(<<"a", "r">>, RowComps, {"r", "b"})
          [] name = "rowin" -> MakeTree(<<"a", "r">>, RowComps, {"b", "c"})
          [] name = "nested" -> MakeTree(<<"v", "a">>, NestedComps, {"a", "b"})]

VARIABLES
    allComponents,  \* the top-level sequence of node ids (prop allComponents)
    tree,           \* the name of the tree chosen at construction
    hoverPosition,  \* each mounted item's cached zone (useState, line 41)
    item,           \* the drag payload of the gesture in progress, or NoDrag
    box,            \* the bounding box every mounted item reports (width, height)
    ptr,            \* the pointer sample of the classifier specification
    moved,          \* whether the gesture in progress has requested a move
    last            \* the last event handled and what its handler did

vars == <<allComponents, tree, hoverPosition, item, box, ptr, moved, last>>

Comps == TreeTable[tree].comps
Items == TreeTable[tree].items

NoDrag == [type |-> Null, id |-> "", component |-> Null, index |-> -1]

\* ------------------------------------------------------------ tree lookups
RECURSIVE PosIn(_, _, _)
PosIn(seq, n, i) ==
    IF i > Len(seq) THEN -1
    ELSE IF seq[i] = n THEN i - 1
    ELSE PosIn(seq, n, i + 1)

Contains(seq, n) == \E i \in 1..Len(seq) : seq[i] = n

\* The container whose child sequence holds n, or Null for a top-level node.
ParentOf(n) == TreeTable[tree].parent[n]

\* The index prop of n's item: its 0-based position in its sibling sequence.
IndexOf(n) ==
    IF ParentOf(n) = Null
    THEN PosIn(allComponents, n, 1)
    ELSE PosIn(Comps[ParentOf(n)].children, n, 1)

IsRow(n) == n # Null /\ Comps[n].type = "horizontal_layout"

\* Helper of the item: the first top-level horizontal_layout whose children
\* include the target, or Null.
RECURSIVE FindFrom(_, _)
FindFrom(target, i) ==
    IF i > Len(allComponents) THEN Null
    ELSE IF /\ Comps[allComponents[i]].type = "horizontal_layout"
            /\ Contains(Comps[allComponents[i]].children, target)
         THEN allComponents[i]
         ELSE FindFrom(target, i + 1)

FindParentRowLayout(target) == FindFrom(target, 1)

\* ----------------------------------------------------------------- payloads
\* useDrag of a mounted item: type reorder-component, the node and its index.
ReorderItem(n) ==
    [type |-> "reorder-component", id |-> n, component |-> n, index |-> IndexOf(n)]

\* A palette entry: a type tag and no node.
PaletteItem == [type |-> "component", id |-> "", component |-> Null, index |-> -1]

\* A member dragged out of a row layout: type horizontal-component and the node.
RowMemberItem(n) ==
    [type |-> "horizontal-component", id |-> n, component |-> n, index |-> -1]

\* The payload the delete zone is written for: type existing-component and an
\* id, which may be empty.
ExistingItem(id) ==
    [type |-> "existing-component", id |-> id, component |-> Null, index |-> -1]

\* The payload types the item's drop target accepts.
Accept == {"reorder-component", "component", "horizontal-component"}

\* The payload types the delete zone accepts.
DeleteAccept == {"existing-component"}

\* A payload test that takes the palette's type tag for another one.
IsPaletteComponentWrongTag(it) == it.component = Null /\ it.type = "palette-component"

IsPaletteComponent(it) == it.component = Null /\ it.type # Null

IsHorizontalComponent(it) == it.type = "horizontal-component" /\ it.component # Null

\* ------------------------------------------------------------ hit classifier
\* Palette / row-member branch of hover: edgeZone 0.3, first match wins.
PaletteZone(x, y, width, height) ==
    IF 10 * y < 3 * height THEN "top"
    ELSE IF 10 * y > 7 * height THEN "bottom"
    ELSE IF 10 * x < 3 * width THEN "left"
    ELSE IF 10 * x > 7 * width THEN "right"
    ELSE "center"

\* The cross-section logic with the side bands checked before top and bottom.
ClassifyZoneSidesFirst(x, y, width, height) ==
    IF 10 * x < 3 * width THEN "left"
    ELSE IF 10 * x > 7 * width THEN "right"
    ELSE IF 10 * y < 3 * height THEN "top"
    ELSE IF 10 * y > 7 * height THEN "bottom"
    ELSE "center"

\* Reorder branch of hover: the same cross-section logic, written out again.
ClassifyZone(x, y, width, height) ==
    IF 10 * y < 3 * height THEN "top"
    ELSE IF 10 * y > 7 * height THEN "bottom"
    ELSE IF 10 * x < 3 * width THEN "left"
    ELSE IF 10 * x > 7 * width THEN "right"
    ELSE "center"

\* The directional guard with the downward comparison turned around.
GuardReturnsFlipped(dragIndex, hoverIndex, y, height) ==
    \/ dragIndex < hoverIndex /\ 2 * y > height
    \/ dragIndex > hoverIndex /\ 2 * y > height

\* The directional guard without its upward half.
GuardReturnsDownOnly(dragIndex, hoverIndex, y, height) ==
    dragIndex < hoverIndex /\ 2 * y < height

\* The directional guard of the reorder branch: TRUE when the hover returns
\* before onMoveComponent (hoverMiddleY = height / 2).
\* A guard that never returns: every top or bottom tick goes on to the move.
GuardReturnsNever(dragIndex, hoverIndex, y, height) == FALSE

GuardReturns(dragIndex, hoverIndex, y, height) ==
    \/ dragIndex < hoverIndex /\ 2 * y < height
    \/ dragIndex > hoverIndex /\ 2 * y > height

\* ------------------------------------------------------------------ requests
\* What the item asks of its owner: onMoveComponent, onCreateRowLayout,
\* onAddToRowLayout, each with its arguments.
MoveReq(dragIndex, hoverIndex) ==
    [op |-> "move", from |-> dragIndex, to |-> hoverIndex,
     dragged |-> Null, target |-> Null, side |-> "none"]
CreateRowReq(draggedComponent, targetComponent, position) ==
    [op |-> "createRow", from |-> -1, to |-> -1,
     dragged |-> draggedComponent, target |-> targetComponent, side |-> position]
AddToRowReq(draggedComponent, targetRowLayout, position) ==
    [op |-> "addToRow", from |-> -1, to |-> -1,
     dragged |-> draggedComponent, target |-> targetRowLayout, side |-> position]
\* The delete zone's onDelete(componentId).
DeleteReq(componentId) ==
    [op |-> "delete", from |-> -1, to |-> -1,
     dragged |-> componentId, target |-> Null, side |-> "none"]

\* onMoveComponent as the owning canvas implements it: the element at
\* dragIndex leaves the top-level sequence and re-enters at hoverIndex.
RemoveAt(seq, i) == SubSeq(seq, 1, i - 1) \o SubSeq(seq, i + 1, Len(seq))
InsertAt(seq, i, e) == SubSeq(seq, 1, i - 1) \o <<e>> \o SubSeq(seq, i, Len(seq))
ApplyMove(seq, dragIndex, hoverIndex) ==
    IF dragIndex \in 0..(Len(seq) - 1) /\ hoverIndex \in 0..(Len(seq) - 1)
    THEN InsertAt(RemoveAt(seq, dragIndex + 1), hoverIndex + 1, seq[dragIndex + 1])
    ELSE seq

\* ------------------------------------------------------------------- events
Event(ev, t, it, pos, y, ref, off, cbCreate, cbAdd, reqs) ==
    [ev |-> ev, target |-> t, kind |-> it.type, id |-> it.id, dragged |-> it.component,
     di |-> it.index, hi |-> IF t = Null THEN -1 ELSE IndexOf(t),
     pos |-> pos, y |-> y, ref |-> ref, off |-> off,
     cbCreate |-> cbCreate, cbAdd |-> cbAdd, reqs |-> reqs]

\* A hover that goes on without its bounding-box reference, reading the box
\* as it was last measured.
HoverOutcomeNoRefCheck(it, t, ref, off, x, y) ==
    IF IsPaletteComponent(it) \/ IsHorizontalComponent(it)
    THEN IF ~off
         THEN [set |-> TRUE, zone |-> "none", move |-> FALSE]
         ELSE [set |-> TRUE, zone |-> PaletteZone(x, y, box.w, box.h), move |-> FALSE]
    ELSE IF it.index = IndexOf(t)
    THEN [set |-> TRUE, zone |-> "none", move |-> FALSE]
    ELSE IF ~off
    THEN [set |-> TRUE, zone |-> "none", move |-> FALSE]
    ELSE LET position == ClassifyZone(x, y, box.w, box.h) IN
         [set |-> TRUE, zone |-> position,
          move |-> /\ position \in {"top", "bottom"}
                   /\ ~GuardReturns(it.index, IndexOf(t), y, box.h)]

\* hover(item, monitor) of the item t: whether setHoverPosition is called, with
\* which zone, and whether onMoveComponent is reached.
HoverOutcome(it, t, ref, off, x, y) ==
    IF ~ref
    THEN [set |-> FALSE, zone |-> "none", move |-> FALSE]
    ELSE IF IsPaletteComponent(it) \/ IsHorizontalComponent(it)
    THEN IF ~off
         THEN [set |-> TRUE, zone |-> "none", move |-> FALSE]
         ELSE [set |-> TRUE, zone |-> PaletteZone(x, y, box.w, box.h), move |-> FALSE]
    ELSE IF it.index = IndexOf(t)
    THEN [set |-> TRUE, zone |-> "none", move |-> FALSE]
    ELSE IF ~off
    THEN [set |-> TRUE, zone |-> "none", move |-> FALSE]
    ELSE LET position == ClassifyZone(x, y, box.w, box.h) IN
         [set |-> TRUE, zone |-> position,
          move |-> /\ position \in {"top", "bottom"}
                   /\ ~GuardReturns(it.index, IndexOf(t), y, box.h)]

\* A drop that hands onCreateRowLayout its two nodes in the wrong order.
DropRequestsSwapped(it, t, finalPosition, cbCreate, cbAdd) ==
    IF IsPaletteComponent(it) THEN << >>
    ELSE IF IsHorizontalComponent(it) THEN << >>
    ELSE IF it.component # Null /\ finalPosition \in {"left", "right"}
    THEN LET parentRowLayout == FindParentRowLayout(t) IN
         IF parentRowLayout # Null /\ cbAdd
         THEN <<AddToRowReq(it.component, parentRowLayout, finalPosition)>>
         ELSE IF cbCreate
         THEN <<CreateRowReq(t, it.component, finalPosition)>>
         ELSE << >>
    ELSE << >>

\* A drop whose add-to-row branch falls through into the create-row branch.
DropRequestsBoth(it, t, finalPosition, cbCreate, cbAdd) ==
    IF IsPaletteComponent(it) THEN << >>
    ELSE IF IsHorizontalComponent(it) THEN << >>
    ELSE IF it.component # Null /\ finalPosition \in {"left", "right"}
    THEN LET parentRowLayout == FindParentRowLayout(t) IN
         (IF parentRowLayout # Null /\ cbAdd
          THEN <<AddToRowReq(it.component, parentRowLayout, finalPosition)>>
          ELSE << >>)
         \o (IF cbCreate
             THEN <<CreateRowReq(it.component, t, finalPosition)>>
             ELSE << >>)
    ELSE << >>

\* A drop that takes every cached zone but none for a side zone.
DropRequestsAnyZone(it, t, finalPosition, cbCreate, cbAdd) ==
    IF IsPaletteComponent(it) THEN << >>
    ELSE IF IsHorizontalComponent(it) THEN << >>
    ELSE IF it.component # Null /\ finalPosition # "none"
    THEN LET parentRowLayout == FindParentRowLayout(t) IN
         IF parentRowLayout # Null /\ cbAdd
         THEN <<AddToRowReq(it.component, parentRowLayout, finalPosition)>>
         ELSE IF cbCreate
         THEN <<CreateRowReq(it.component, t, finalPosition)>>
         ELSE << >>
    ELSE << >>

\* drop(item, monitor) of the item t: the requests it issues, given the zone
\* cached at the drop and which of the optional row callbacks are supplied.
DropRequests(it, t, finalPosition, cbCreate, cbAdd) ==
    IF IsPaletteComponent(it) THEN << >>
    ELSE IF IsHorizontalComponent(it) THEN << >>
    ELSE IF it.component # Null /\ finalPosition \in {"left", "right"}
    THEN LET parentRowLayout == FindParentRowLayout(t) IN
         IF parentRowLayout # Null /\ cbAdd
         THEN <<AddToRowReq(it.component, parentRowLayout, finalPosition)>>
         ELSE IF cbCreate
         THEN <<CreateRowReq(it.component, t, finalPosition)>>
         ELSE << >>
    ELSE << >>

\* A drop that reads the cached zone and forgets to reset it.
ZoneKept(finalPosition) == finalPosition

\* The zone the item caches once its drop handler has run.
ZoneAfterDrop(finalPosition) == "none"

\* The payloads a gesture can start with.
Payloads ==
    {ReorderItem(n) : n \in Items}
        \cup {PaletteItem}
        \cup {RowMemberItem(n) : n \in {m \in Nodes : IsRow(ParentOf(m))}}

\* A drag starts: react-dnd asks the source for its payload.
BeginDrag(p) ==
    /\ item = NoDrag
    /\ item' = p
    /\ moved' = FALSE
    /\ last' = Event("begin", Null, p, "none", 0, FALSE, FALSE, FALSE, FALSE, << >>)
    /\ UNCHANGED <<allComponents, tree, hoverPosition, box, ptr>>

\* A hover tick that requests its move and leaves the payload's index as it was.
HoverTickNoIndexUpdate(t, ref, off, x, y) ==
    /\ item # NoDrag
    /\ item.type \in Accept
    /\ t \in Items
    /\ LET o == HoverOutcome(item, t, ref, off, x, y) IN
       /\ hoverPosition' = IF o.set THEN [hoverPosition EXCEPT ![t] = o.zone]
                                    ELSE hoverPosition
       /\ allComponents' = IF o.move THEN ApplyMove(allComponents, item.index, IndexOf(t))
                                     ELSE allComponents
       /\ item' = item
       /\ moved' = (moved \/ o.move)
       /\ last' = Event("hover", t, item, o.zone, y, ref, off, FALSE, FALSE,
                        IF o.move THEN <<MoveReq(item.index, IndexOf(t))>> ELSE << >>)
    /\ UNCHANGED <<tree, box, ptr>>

\* One hover tick over the mounted item t; ref and off tell whether the
\* bounding-box reference and the client offset are there, (x, y) is the
\* box-local pointer.
HoverTick(t, ref, off, x, y) ==
    /\ item # NoDrag
    /\ item.type \in Accept
    /\ t \in Items
    /\ LET o == HoverOutcome(item, t, ref, off, x, y) IN
       /\ hoverPosition' = IF o.set THEN [hoverPosition EXCEPT ![t] = o.zone]
                                    ELSE hoverPosition
       /\ allComponents' = IF o.move THEN ApplyMove(allComponents, item.index, IndexOf(t))
                                     ELSE allComponents
       /\ item' = IF o.move THEN [item EXCEPT !.index = IndexOf(t)] ELSE item
       /\ moved' = (moved \/ o.move)
       /\ last' = Event("hover", t, item, o.zone, y, ref, off, FALSE, FALSE,
                        IF o.move THEN <<MoveReq(item.index, IndexOf(t))>> ELSE << >>)
    /\ UNCHANGED <<tree, box, ptr>>

\* The pointer leaves the hovered item without entering another: no handler
\* of the item runs.
Leave ==
    /\ item # NoDrag
    /\ last.ev = "hover"
    /\ last' = Event("leave", last.target, item, "none", 0, FALSE, FALSE, FALSE, FALSE, << >>)
    /\ UNCHANGED <<allComponents, tree, hoverPosition, item, box, ptr, moved>>

\* The payload is dropped on the mounted item t; the gesture ends.
Drop(t, cbCreate, cbAdd) ==
    /\ item # NoDrag
    /\ item.type \in Accept
    /\ t \in Items
    /\ LET finalPosition == hoverPosition[t] IN
       /\ hoverPosition' = [hoverPosition EXCEPT ![t] = ZoneAfterDrop(finalPosition)]
       /\ last' = Event("drop", t, item, finalPosition, 0, FALSE, FALSE, cbCreate, cbAdd,
                        DropRequests(item, t, finalPosition, cbCreate, cbAdd))
    /\ item' = NoDrag
    /\ UNCHANGED <<allComponents, tree, box, ptr, moved>>

\* The gesture ends without a drop on any item: no handler of the item runs.
Cancel ==
    /\ item # NoDrag
    /\ item' = NoDrag
    /\ last' = Event("cancel", Null, item, "none", 0, FALSE, FALSE, FALSE, FALSE, << >>)
    /\ UNCHANGED <<allComponents, tree, hoverPosition, box, ptr, moved>>

Init ==
    /\ tree \in TreeNames
    /\ allComponents = TreeTable[tree].top
    /\ hoverPosition = [n \in Items |-> "none"]
    /\ item = NoDrag
    /\ box = [w |-> BoxW, h |-> BoxH]
    /\ ptr = [t |-> Null, x |-> 0, y |-> 0]
    /\ moved = FALSE
    /\ last = Event("init", Null, NoDrag, "none", 0, FALSE, FALSE, FALSE, FALSE, << >>)

Next ==
    \/ \E p \in Payloads : BeginDrag(p)
    \/ \E t \in Items, x \in 0..box.w, y \in 0..box.h : HoverTick(t, TRUE, TRUE, x, y)
    \/ \E t \in Items, ref \in BOOLEAN, off \in BOOLEAN :
          ~(ref /\ off) /\ HoverTick(t, ref, off, 0, 0)
    \/ Leave
    \/ \E t \in Items, cbCreate \in BOOLEAN, cbAdd \in BOOLEAN : Drop(t, cbCreate, cbAdd)
    \/ Cancel

Spec == Init /\ [][Next]_vars

\* --------------------------------------------------- delete zone specification
\* A delete zone that calls onDelete without looking at the id.
DeleteRequestsNoIdCheck(it) ==
    IF it.type = "existing-component" THEN <<DeleteReq(it.id)>> ELSE << >>

\* drop of the delete zone: the notification it raises for the payload.
DeleteRequests(it) ==
    IF it.type = "existing-component" /\ it.id # ""
    THEN <<DeleteReq(it.id)>>
    ELSE << >>

ExistingPayloads == {ExistingItem(id) : id \in Nodes \cup {""}}

\* The payload is dropped on the delete zone, which accepts it; the gesture ends.
DropOnDeleteZone ==
    /\ item # NoDrag
    /\ item.type \in DeleteAccept
    /\ last' = Event("deleteDrop", Null, item, "none", 0, FALSE, FALSE, FALSE, FALSE,
                     DeleteRequests(item))
    /\ item' = NoDrag
    /\ UNCHANGED <<allComponents, tree, hoverPosition, box, ptr, moved>>

InitDelete == Init /\ tree = "flat"

NextDelete ==
    \/ Next
    \/ \E p \in ExistingPayloads : BeginDrag(p)
    \/ DropOnDeleteZone

SpecDelete == InitDelete /\ [][NextDelete]_vars

\* ----------------------------------------------------- reordering specification
\* Live reordering on its own: reorder-origin gestures over a list of three
\* siblings, hover ticks with box and pointer present, ended without a drop.
InitReorder ==
    /\ tree \in ReorderTreeNames
    /\ allComponents = TreeTable[tree].top
    /\ hoverPosition = [n \in Items |-> "none"]
    /\ item = NoDrag
    /\ box = [w |-> BoxW, h |-> BoxH]
    /\ ptr = [t |-> Null, x |-> 0, y |-> 0]
    /\ moved = FALSE
    /\ last = Event("init", Null, NoDrag, "none", 0, FALSE, FALSE, FALSE, FALSE, << >>)

NextReorder ==
    \/ \E n \in Items : BeginDrag(ReorderItem(n))
    \/ \E t \in Items, x \in 0..box.w, y \in 0..box.h : HoverTick(t, TRUE, TRUE, x, y)
    \/ Cancel

SpecReorder == InitReorder /\ [][NextReorder]_vars

\* ---------------------------------------------------- classifier specification
\* The hit classifier on its own: a box and a pointer sample are drawn at the
\* start, and every hover tick of the gesture is at that sample.
InitClassify ==
    /\ tree = "row"
    /\ allComponents = TreeTable[tree].top
    /\ hoverPosition = [n \in Items |-> "none"]
    /\ item = NoDrag
    /\ box \in [w : 1..MaxBox, h : 1..MaxBox]
    /\ ptr \in [t : Items, x : 0..MaxBox, y : 0..MaxBox]
    /\ ptr.x <= box.w /\ ptr.y <= box.h
    /\ moved = FALSE
    /\ last = Event("init", Null, NoDrag, "none", 0, FALSE, FALSE, FALSE, FALSE, << >>)

ProbeTick == HoverTick(ptr.t, TRUE, TRUE, ptr.x, ptr.y)

NextClassify ==
    \/ \E p \in Payloads : BeginDrag(p)
    \/ ProbeTick
    \/ Cancel

SpecClassify == InitClassify /\ [][NextClassify]_vars

\* ===================================================================== claims
ReorderKind == "reorder-component"
DelegatedKinds == {"component", "horizontal-component"}

\* The last event was a hover tick of a reorder drag that reached the
\* classification: box and pointer present, tracked index other than the item's.
ReorderTick ==
    /\ last.ev = "hover"
    /\ last.kind = ReorderKind
    /\ last.ref /\ last.off
    /\ last.di # last.hi

CommittedMove ==
    /\ last.reqs = <<MoveReq(last.di, last.hi)>>
    /\ item.index = last.hi

NoMove ==
    /\ last.reqs = << >>
    /\ item.index = last.di

\* C1 as the spec states it: moving downward, a tick above the midpoint requests
\* no move and every tick at or past the midpoint (y >= height/2) requests
\* requestMove(dragIndex, hoverIndex) and leaves the tracked index at hoverIndex.
C1_MidpointCommits ==
    (ReorderTick /\ last.di < last.hi) =>
        /\ (2 * last.y < box.h => last.reqs = << >>)
        /\ (2 * last.y >= box.h => CommittedMove)

\* C1 amended: moving downward, a tick above the midpoint requests no move; a
\* tick past 0.7*height (zone bottom) requests requestMove(dragIndex, hoverIndex)
\* and leaves the tracked index at hoverIndex; a tick from the midpoint up to
\* 0.7*height (y = 0.6*height among them) requests no move.
C1_BottomBandCommits ==
    (ReorderTick /\ last.di < last.hi) =>
        /\ (2 * last.y < box.h => NoMove)
        /\ (10 * last.y > 7 * box.h => CommittedMove)
        /\ (2 * last.y >= box.h /\ 10 * last.y <= 7 * box.h => NoMove)

C1_Witness ==
    /\ ReorderTick
    /\ last.di < last.hi
    /\ 10 * last.y > 7 * box.h
    /\ CommittedMove

\* C2: a reorder-origin node dropped on its own top-level item issues no
\* request, whatever zone the item has cached.
C2_SelfDropNoOp ==
    (/\ last.ev = "drop"
     /\ last.kind = ReorderKind
     /\ last.dragged = last.target
     /\ ParentOf(last.target) = Null) => last.reqs = << >>

\* The drop of reorder-origin node A on another node B with a side zone cached.
SideDrop ==
    /\ last.ev = "drop"
    /\ last.kind = ReorderKind
    /\ last.pos \in {"left", "right"}
    /\ last.dragged # last.target

\* C3 as the spec states it: A dropped on B, B in no row, zone left or right:
\* exactly one requestCreateRow(A, B, side) and no requestMove in the gesture.
C3_ExactlyOneCreateRowNoMove ==
    (SideDrop /\ ~IsRow(ParentOf(last.target))) =>
        /\ last.reqs = <<CreateRowReq(last.dragged, last.target, last.pos)>>
        /\ ~moved

\* C3 amended: A dropped on B, B in no row, zone left or right: the drop issues
\* requestCreateRow(A, B, side) once when the create-row callback is supplied
\* and nothing otherwise; it issues no requestAddToRow and no requestMove.
C3_CreateRowAtDrop ==
    (SideDrop /\ ~IsRow(ParentOf(last.target))) =>
        last.reqs = IF last.cbCreate
                    THEN <<CreateRowReq(last.dragged, last.target, last.pos)>>
                    ELSE << >>

C3_Witness ==
    /\ SideDrop
    /\ ~IsRow(ParentOf(last.target))
    /\ last.pos = "right"
    /\ last.reqs = <<CreateRowReq(last.dragged, last.target, "right")>>

\* C4: A dropped with zone left or right on B, a child of row R: the drop never
\* issues requestCreateRow, and issues requestAddToRow(A, R, side) once when
\* that callback is supplied.
C4_AddToRowNeverCreateRow ==
    (SideDrop /\ IsRow(ParentOf(last.target))) =>
        /\ \A i \in 1..Len(last.reqs) : last.reqs[i].op # "createRow"
        /\ last.cbAdd =>
             last.reqs = <<AddToRowReq(last.dragged, ParentOf(last.target), last.pos)>>

\* C5: when a gesture ends without a drop, it has issued no mutation request
\* and every item's cached zone is none.
C5_CancelLeavesNothing ==
    last.ev = "cancel" =>
        /\ ~moved
        /\ \A i \in Items : hoverPosition[i] = "none"

\* C6: during a palette-origin or row-member-origin drag no step issues a
\* request, the sequence and the payload stay as they are, and the only thing
\* that changes is the cached zone of the item whose handler ran.
C6_DelegatedDragsOnlyCacheZone ==
    [][item.type \in DelegatedKinds =>
         /\ last'.reqs = << >>
         /\ allComponents' = allComponents
         /\ moved' = moved
         /\ item' \in {item, NoDrag}
         /\ \A i \in Items :
               hoverPosition'[i] # hoverPosition[i] =>
                   i = last'.target /\ last'.ev \in {"hover", "drop"}]_vars

C6_Witness ==
    /\ last.ev = "hover"
    /\ last.kind = "component"
    /\ last.pos = "bottom"
    /\ hoverPosition[last.target] = "bottom"
    /\ last.reqs = << >>

\* C7: a hover tick issues at most one request and only requestMove; a drop
\* issues at most one request and only a row request; nothing else issues any.
C7_RowRequestsOnlyAtDrop ==
    /\ Len(last.reqs) <= 1
    /\ \A i \in 1..Len(last.reqs) :
          /\ last.reqs[i].op = "move" => last.ev = "hover"
          /\ last.reqs[i].op \in {"createRow", "addToRow"} => last.ev = "drop"
    /\ last.ev \notin {"hover", "drop"} => last.reqs = << >>

C7_Witness ==
    /\ last.ev = "drop"
    /\ last.cbCreate /\ last.cbAdd
    /\ Len(last.reqs) = 1
    /\ last.reqs[1].op = "addToRow"

\* C8: at every moment only the item under the pointer (the target of the
\* hover tick just handled) has a cached zone other than none.
C8_OnlyHoveredItemHasZone ==
    \A i \in Items :
        hoverPosition[i] # "none" => (last.ev = "hover" /\ last.target = i)

\* C9: once an item has handled a drop its cached zone is none, for every
\* payload kind and every zone cached before.
C9_DropResetsZone ==
    last.ev = "drop" => hoverPosition[last.target] = "none"

C9_Witness ==
    /\ last.ev = "drop"
    /\ last.kind = "horizontal-component"
    /\ last.pos = "center"
    /\ hoverPosition[last.target] = "none"

\* The classifier of the design: margin 0.3 of each side, bands tried in the
\* order top, bottom, left, right, and center when none matches.
RefBands(x, y, width, height) ==
    <<10 * y < 3 * height, 10 * y > 7 * height,
      10 * x < 3 * width, 10 * x > 7 * width, TRUE>>

RefClassify(x, y, width, height) ==
    LET names == <<"top", "bottom", "left", "right", "center">>
        bands == RefBands(x, y, width, height)
        first == CHOOSE k \in 1..5 : bands[k] /\ \A j \in 1..(k - 1) : ~bands[j]
    IN  names[first]

\* The last event was a tick at the pointer sample that reached a
\* classification, in either branch of hover.
ClassifiedTick ==
    /\ last.ev = "hover"
    /\ last.ref /\ last.off
    /\ last.kind \in DelegatedKinds \/ last.di # last.hi

\* C10: the zone a hover tick caches is the reference classifier's, one of the
\* five active zones, top whenever y < 0.3*height and bottom whenever
\* y > 0.7*height whatever x is.
C10_ZoneIsReference ==
    ClassifiedTick =>
        /\ hoverPosition[ptr.t] = RefClassify(ptr.x, ptr.y, box.w, box.h)
        /\ hoverPosition[ptr.t] \in Zones \ {"none"}
        /\ (10 * ptr.y < 3 * box.h => hoverPosition[ptr.t] = "top")
        /\ (10 * ptr.y > 7 * box.h => hoverPosition[ptr.t] = "bottom")

C10_Witness ==
    /\ ClassifiedTick
    /\ last.kind = ReorderKind
    /\ 10 * ptr.y > 7 * box.h
    /\ 10 * ptr.x < 3 * box.w
    /\ hoverPosition[ptr.t] = "bottom"

\* C11: a reorder-origin drop whose cached zone is center, none, top or bottom
\* issues no request at all.
C11_NoRequestOutsideSideZones ==
    (/\ last.ev = "drop"
     /\ last.kind = ReorderKind
     /\ last.pos \in {"center", "none", "top", "bottom"}) => last.reqs = << >>

C11_Witness ==
    /\ last.ev = "drop"
    /\ last.kind = ReorderKind
    /\ last.pos = "center"
    /\ last.dragged # last.target
    /\ last.cbCreate /\ last.cbAdd
    /\ last.reqs = << >>

\* C12: the delete zone handles only existing-component payloads; for one with
\* a non-empty id it raises onDelete exactly once with that id, and onDelete is
\* raised for nothing else (a canvas item's reorder payload never reaches it).
C12_DeleteOnlyExistingWithId ==
    /\ last.ev = "deleteDrop" =>
          /\ last.kind = "existing-component"
          /\ last.reqs = IF last.id # "" THEN <<DeleteReq(last.id)>> ELSE << >>
    /\ \A i \in 1..Len(last.reqs) :
          last.reqs[i].op = "delete" =>
              /\ last.ev = "deleteDrop"
              /\ last.id # ""
              /\ last.reqs[i].dragged = last.id

C12_Witness ==
    /\ last.ev = "deleteDrop"
    /\ last.id = "a"
    /\ last.reqs = <<DeleteReq("a")>>

\* C13: a hover tick that repeats the tick before it (same item, same pointer
\* height, box and offset present alike) requests no move; so after a tick
\* has committed a move, a stationary pointer commits no second one.
C13_RepeatedTickNeverMoves ==
    [][(/\ last.ev = "hover"
        /\ last'.ev = "hover"
        /\ last'.target = last.target
        /\ last'.y = last.y
        /\ last'.ref = last.ref
        /\ last'.off = last.off) => last'.reqs = << >>]_vars

\* The tick after a committed downward move, on the same item in zone bottom:
\* the drag now points upward and the guard returns.
C13_Witness ==
    /\ ReorderTick
    /\ moved
    /\ last.pos = "bottom"
    /\ last.di > last.hi
    /\ allComponents # TreeTable[tree].top
    /\ last.reqs = << >>

\* C14: a drop that follows the start of its gesture with no hover tick in
\* between issues no request, whatever earlier gestures did: with no earlier
\* gesture every cached zone is none and such a drop issues nothing, so a run
\* that differs only in an earlier gesture must issue nothing too.
C14_NoLeakIntoDropWithoutTicks ==
    [][(last.ev = "begin" /\ last'.ev = "drop") => last'.reqs = << >>]_vars

\* C15: a hover tick with no bounding-box reference issues no request and
\* leaves every cached zone, the payload and the list as they were; a tick with
\* the reference but no client offset issues no request, leaves the payload and
\* the list as they were and sets the item's cached zone to none; for every
\* kind of payload.
C15_DegenerateTicksAreNoOps ==
    [][/\ (last'.ev = "hover" /\ ~last'.ref) =>
            /\ last'.reqs = << >>
            /\ hoverPosition' = hoverPosition
            /\ item' = item
            /\ allComponents' = allComponents
       /\ (last'.ev = "hover" /\ last'.ref /\ ~last'.off) =>
            /\ last'.reqs = << >>
            /\ item' = item
            /\ allComponents' = allComponents
            /\ hoverPosition'[last'.target] = "none"
            /\ \A n \in Items \ {last'.target} : hoverPosition'[n] = hoverPosition[n]]_vars

\* A reorder tick without the bounding-box reference on an item that keeps the
\* side or edge zone it had cached.
C15_Witness ==
    /\ last.ev = "hover"
    /\ last.kind = ReorderKind
    /\ ~last.ref
    /\ last.di # last.hi
    /\ hoverPosition[last.target] # "none"
    /\ last.reqs = << >>

\* C16: at a left/right drop of reorder-origin node A on B with both row
\* callbacks supplied, the request is requestAddToRow(A, R, side) when some
\* horizontal_layout R anywhere in the tree has B among its children, and
\* requestCreateRow(A, B, side) when there is no such R.
C16_RowFoundAnywhereInTree ==
    (SideDrop /\ last.cbCreate /\ last.cbAdd) =>
        last.reqs = IF \E r \in Nodes : IsRow(r) /\ Contains(Comps[r].children, last.target)
                    THEN <<AddToRowReq(last.dragged,
                                       CHOOSE r \in Nodes :
                                           IsRow(r) /\ Contains(Comps[r].children, last.target),
                                       last.pos)>>
                    ELSE <<CreateRowReq(last.dragged, last.target, last.pos)>>

\* s and t hold the same nodes, each once.
IsPermutation(s, t) ==
    /\ Len(s) = Len(t)
    /\ \A i \in 1..Len(t) : \E j \in 1..Len(s) : s[j] = t[i]
    /\ \A i, j \in 1..Len(s) : s[i] = s[j] => i = j

\* C17: throughout a reorder-origin gesture over one sibling sequence, the
\* index the payload tracks is the dragged node's position in the sequence, and
\* the sequence is a permutation of the original one.
C17_TrackedIndexIsActualIndex ==
    /\ IsPermutation(allComponents, TreeTable[tree].top)
    /\ item.type = ReorderKind =>
          /\ item.index = PosIn(allComponents, item.component, 1)
          /\ item.index \in 0..(Len(allComponents) - 1)

\* Two committed moves into the gesture: the dragged node has gone from the
\* head of the list to its tail and the tracked index has followed.
C17_Witness ==
    /\ item.type = ReorderKind
    /\ CommittedMove
    /\ last.di = 1
    /\ item.index = 2
    /\ allComponents[3] = TreeTable[tree].top[1]
    /\ allComponents[3] = item.component

\* C18: a hover tick of a reorder-origin drag requests a move exactly when the
\* tracked index differs from the item's and the drag points downward with
\* zone bottom or upward with zone top; a tick that requests no move leaves
\* the tracked index as it was.
C18_MoveIffEdgeZoneInDragDirection ==
    (last.ev = "hover" /\ last.kind = ReorderKind) =>
        /\ (last.reqs # << >>) <=>
              /\ last.di # last.hi
              /\ \/ last.di < last.hi /\ last.pos = "bottom"
                 \/ last.di > last.hi /\ last.pos = "top"
        /\ last.reqs # << >> => CommittedMove
        /\ last.reqs = << >> => item.index = last.di

\* A tick in zone top while the drag points downward: no move.
C18_Witness ==
    /\ ReorderTick
    /\ last.di < last.hi
    /\ last.pos = "top"
    /\ NoMove

\* C19: every requestCreateRow has distinct dragged and target nodes, and
\* every requestAddToRow has a dragged node that is neither the row nor
\* already one of the row's children.
C19_RowRequestsWellFormed ==
    \A i \in 1..Len(last.reqs) :
        /\ last.reqs[i].op = "createRow" => last.reqs[i].dragged # last.reqs[i].target
        /\ last.reqs[i].op = "addToRow" =>
              /\ last.reqs[i].dragged # last.reqs[i].target
              /\ ~Contains(Comps[last.reqs[i].target].children, last.reqs[i].dragged)

====
